---------------------------- MODULE Spec2Model ----------------------------
(***************************************************************************)
(* State-machine model of src/js/activity-loader.js (ActivityLoader).      *)
(*                                                                         *)
(* A page view holds one .activity-container, the two toggle elements      *)
(* #load-more-container and #collapse-container, and any number of calls   *)
(* of loadActivities (the automatic one and reload()).  loadActivities is  *)
(* an async function: it suspends at fetch(STATIC_JSON_URL), at            *)
(* response.json(), at fetch(FALLBACK_API_URL) and at the second           *)
(* response.json(); everything between two suspension points runs as one   *)
(* atomic step of the single JavaScript thread.  A call that has returned  *)
(* leaves nothing behind but what it wrote to the page: the calls in       *)
(* flight are numbered 1, 2, ... from the oldest, and the numbers close up *)
(* when one returns.  The number of calls is not bounded, the number of    *)
(* calls in flight at once is.                                             *)
(***************************************************************************)
EXTENDS Integers, Sequences, FiniteSets, TLC

\* ------------------------------------------------------------------ bounds
MaxInFlight == 2   \* calls of loadActivities in flight at once
MaxLen == 6        \* longest array a source answers with

\* --------------------------------------------------------------- constants
INITIAL_SHOW_COUNT == 5

\* variant: EMPTY_DATA carries the code of CONFIG_NOT_SET
MisnumberedCodes ==
  [CONFIG_NOT_SET |-> "ERR-AL-001", NETWORK_ERROR |-> "ERR-AL-002",
   EMPTY_DATA |-> "ERR-AL-001", CONTAINER_NOT_FOUND |-> "ERR-AL-004"]

ERROR_CODES ==
  [CONFIG_NOT_SET |-> "ERR-AL-001", NETWORK_ERROR |-> "ERR-AL-002",
   EMPTY_DATA |-> "ERR-AL-003", CONTAINER_NOT_FOUND |-> "ERR-AL-004"]

STATIC_JSON_URL == "A"
FALLBACK_API_URL == "B"

Loads == 1..MaxInFlight
Toggles == {"loadMore", "collapse"}

VARIABLES
  containerExists,  \* document.querySelector('.activity-container') finds it
  children,         \* the container's child nodes, in document order
  togglePos,        \* per toggle: "absent" | "outside" | "inside" | "detached"
  display,          \* per toggle: style.display, "none" | "block"
  itemElements,     \* the item elements in the container (itemElements of their load)
  wired,            \* the item arrays click listeners are registered for:
                    \* "rendered" (those in the container), "detached" (earlier ones)
  scrollTarget,     \* the element the last step scrolled into view
  console,          \* the lines the last step wrote to the developer console
  pc,               \* per call in flight: "fetchA" | "jsonA" | "fetchB" | "jsonB"
                    \* ("idle": no such call)
  lmRef,            \* per call: const loadMoreContainer is non-null
  colRef,           \* per call: const collapseContainer is non-null
  activities,       \* per call: let activities
  requests,         \* per call: number of fetch calls per URL
  primary,          \* per call: how its primary attempt settled ("none": not yet)
  raced,            \* per call: a call in flight beside it has returned since
  event             \* the step taken last and its input

vars == <<containerExists, children, togglePos, display, itemElements, wired,
          scrollTarget, console, pc, lmRef, colRef, activities, requests,
          primary, raced, event>>

\* ------------------------------------------------------------ JSON values
\* A date field: absent (undefined), null, a string no Date can parse, or a
\* parseable ISO string y-m-d.
NoDate == [kind |-> "undefined", y |-> 0, m |-> 0, d |-> 0]
NullDate == [kind |-> "null", y |-> 0, m |-> 0, d |-> 0]
BadDate == [kind |-> "invalid", y |-> 0, m |-> 0, d |-> 0]
IsoDate(y, m, d) == [kind |-> "valid", y |-> y, m |-> m, d |-> d]
BadDateText == <<"<", "x", ">">>   \* the raw text of BadDate

DigitChar(n) == <<"0", "1", "2", "3", "4", "5", "6", "7", "8", "9">>[n + 1]

\* What a body decodes to: a falsy value (null, false, 0, ""), a truthy value
\* that is no array ({}), or an array of records.
JsonNull == [type |-> "null", elems |-> <<>>]
JsonObject == [type |-> "object", elems |-> <<>>]
JsonArray(s) == [type |-> "array", elems |-> s]

\* The i-th record a source serves.  The static snapshot holds valid dates in
\* ascending order; the spreadsheet has one row without a date and one whose
\* date no Date can parse.  Records carry no identifier: the fourth row of a
\* source repeats the third.
Activity(url, i) ==
  LET k == IF i = 4 THEN 3 ELSE i
  IN [date |-> IF url = FALLBACK_API_URL /\ k = 2 THEN NoDate
               ELSE IF url = FALLBACK_API_URL /\ k = 5 THEN BadDate
               ELSE IsoDate(2025, 1, k),
      title |-> <<url, DigitChar(k)>>,
      content |-> IF k = 1 THEN <<"<", "b", ">", "&">> ELSE <<"c">>]

Payload(url, n) == JsonArray([i \in 1..n |-> Activity(url, i)])

Lens == {0, INITIAL_SHOW_COUNT} \cup (INITIAL_SHOW_COUNT + 1)..MaxLen

\* the bodies a source may answer with: one that does not decode, null, {},
\* or an array of n records
Bodies ==
  {[kind |-> k, n |-> 0] : k \in {"badjson", "null", "object"}}
    \cup {[kind |-> "array", n |-> n] : n \in Lens}

\* ------------------------------------------------------------- formatDate
Pad2(n) == <<DigitChar(n \div 10), DigitChar(n % 10)>>

Year4(y) ==
  <<DigitChar(y \div 1000), DigitChar((y \div 100) % 10),
    DigitChar((y \div 10) % 10), DigitChar(y % 10)>>

\* variant: the guard of line 34 is missing, String(undefined) is shown
formatDateUnguarded(dateValue) ==
  IF dateValue.kind = "undefined" THEN <<"u", "n", "d">>
  ELSE IF dateValue.kind = "null" THEN <<"n", "u", "l", "l">>
  ELSE IF dateValue.kind = "invalid" THEN BadDateText
  ELSE Year4(dateValue.y) \o <<".">> \o Pad2(dateValue.m) \o <<".">> \o Pad2(dateValue.d)

formatDate(dateValue) ==
  IF dateValue.kind \in {"undefined", "null"} THEN <<>>
  ELSE IF dateValue.kind = "invalid" THEN BadDateText
  ELSE Year4(dateValue.y) \o <<".">> \o Pad2(dateValue.m) \o <<".">> \o Pad2(dateValue.d)

\* ------------------------------------------------------------- escapeHtml
\* variant: the text is inserted as it is
RawChar(c) == <<c>>

EscapeChar(c) ==
  IF c = "&" THEN <<"&", "a", "m", "p", ";">>
  ELSE IF c = "<" THEN <<"&", "l", "t", ";">>
  ELSE IF c = ">" THEN <<"&", "g", "t", ";">>
  ELSE <<c>>

RECURSIVE escapeHtml(_)
escapeHtml(text) ==
  IF text = <<>> THEN <<>> ELSE EscapeChar(Head(text)) \o escapeHtml(Tail(text))

\* ----------------------------------------------------- createActivityItem
createActivityItem(activity, isHidden) ==
  [hidden |-> isHidden,
   date |-> escapeHtml(formatDate(activity.date)),
   title |-> escapeHtml(activity.title),
   content |-> escapeHtml(activity.content)]

\* ------------------------------------------- activities.sort(comparator)
\* new Date(x).getTime(): NaN for undefined and for an unparseable string,
\* 0 for null, otherwise the time value (days here: only the order matters).
NewDate(x) ==
  IF x.kind = "valid" THEN [nan |-> FALSE, t |-> (x.y * 12 + x.m) * 31 + x.d]
  ELSE IF x.kind = "null" THEN [nan |-> FALSE, t |-> 0]
  ELSE [nan |-> TRUE, t |-> 0]

\* (a, b) => dateB - dateA
compareFn(a, b) ==
  LET dateA == NewDate(a.date)
      dateB == NewDate(b.date)
  IN IF dateA.nan \/ dateB.nan THEN [nan |-> TRUE, t |-> 0]
     ELSE [nan |-> FALSE, t |-> dateB.t - dateA.t]

\* Array.prototype.sort reads a comparator result of NaN as +0.
SortCompare(a, b) ==
  LET v == compareFn(a, b) IN IF v.nan THEN 0 ELSE v.t

\* Stable insertion sort (the engine's choice for short arrays).
RECURSIVE InsertSorted(_, _)
InsertSorted(s, x) ==
  IF s = <<>> THEN <<x>>
  ELSE IF SortCompare(s[Len(s)], x) > 0
       THEN Append(InsertSorted(SubSeq(s, 1, Len(s) - 1), x), s[Len(s)])
       ELSE Append(s, x)

RECURSIVE InsertionSort(_)
InsertionSort(s) ==
  IF s = <<>> THEN <<>>
  ELSE InsertSorted(InsertionSort(SubSeq(s, 1, Len(s) - 1)), s[Len(s)])

\* Stable top-down merge sort (the other common engine choice).
RECURSIVE Merge(_, _)
Merge(l, r) ==
  IF l = <<>> THEN r
  ELSE IF r = <<>> THEN l
  ELSE IF SortCompare(Head(l), Head(r)) <= 0
       THEN <<Head(l)>> \o Merge(Tail(l), r)
       ELSE <<Head(r)>> \o Merge(l, Tail(r))

RECURSIVE MergeSort(_)
MergeSort(s) ==
  IF Len(s) <= 1 THEN s
  ELSE LET mid == Len(s) \div 2
       IN Merge(MergeSort(SubSeq(s, 1, mid)), MergeSort(SubSeq(s, mid + 1, Len(s))))

\* With a comparator that is not consistent (NaN results) the order is left
\* to the engine: every outcome an engine produces is possible.
SortOutcomes(s) == {InsertionSort(s), MergeSort(s)}

\* -------------------------------------------------------------------- DOM
Node(kind, idx, code) == [kind |-> kind, idx |-> idx, code |-> code]
LoadingNode == Node("loading", 0, "")
ErrorNode(code) == Node("error", 0, code)
ItemNode(i) == Node("item", i, "")
ToggleNode(t) == Node(t, 0, "")

RECURSIVE Without(_, _)
Without(s, x) ==
  IF s = <<>> THEN <<>>
  ELSE IF Head(s) = x THEN Without(Tail(s), x)
  ELSE <<Head(s)>> \o Without(Tail(s), x)

\* document.getElementById(id): only elements attached to the document.
getElementById(pos, t) == pos[t] \in {"outside", "inside"}

\* container.innerHTML = ...: the old children leave the document.
SetInnerHTML(dom, nodes) ==
  [children |-> nodes,
   pos |-> [t \in Toggles |-> IF dom.pos[t] = "inside" THEN "detached" ELSE dom.pos[t]]]

\* if (ref) container.appendChild(ref): moves the element to the end.
AppendToggle(dom, ref, t) ==
  IF ref
  THEN [children |-> Append(Without(dom.children, ToggleNode(t)), ToggleNode(t)),
        pos |-> [dom.pos EXCEPT ![t] = "inside"]]
  ELSE dom

\* the two appendChild calls that close every branch of loadActivities
AppendToggles(dom, l) ==
  AppendToggle(AppendToggle(dom, lmRef[l], "loadMore"), colRef[l], "collapse")

showLoading(dom) == SetInnerHTML(dom, <<LoadingNode>>)

\* variant: the container is not emptied before the items are appended
KeepContainer(dom) == dom

\* container.innerHTML = ''
ClearContainer(dom) == SetInnerHTML(dom, <<>>)

\* variant: the message is written without its code
showErrorNoCode(dom, errorCode) == SetInnerHTML(dom, <<ErrorNode("")>>)

showErrorDom(dom, errorCode) == SetInnerHTML(dom, <<ErrorNode(errorCode)>>)

\* ----------------------------------------------------- setupToggleButtons
\* toggleActivities(showAll), the part that walks the captured items
toggleActivities(items, showAll) ==
  [i \in 1..Len(items) |->
     IF i - 1 >= INITIAL_SHOW_COUNT
     THEN [items[i] EXCEPT !.hidden = ~showAll]
     ELSE items[i]]

\* toggleActivities(showAll), the two style.display assignments
ToggleDisplay(showAll) ==
  [t \in Toggles |->
     IF t = "loadMore" THEN (IF showAll THEN "none" ELSE "block")
     ELSE (IF showAll THEN "block" ELSE "none")]

\* variant: the else branch is missing, the controls stay as they are
KeptDisplay == display

\* the else branch: both controls hidden
SuppressedDisplay == [t \in Toggles |-> "none"]

\* variant: one toggle is enough to go on
EitherFound(pos) == getElementById(pos, "loadMore") \/ getElementById(pos, "collapse")

\* if (!loadMoreContainer || !collapseContainer) return;
TogglesFound(pos) == getElementById(pos, "loadMore") /\ getElementById(pos, "collapse")

\* variant: the early return of line 119 is missing
SetupDisplayAlways(pos, items, old) ==
  IF Len(items) > INITIAL_SHOW_COUNT THEN ToggleDisplay(FALSE) ELSE SuppressedDisplay

\* style.display of the toggles after setupToggleButtons(container, items)
SetupDisplay(pos, items, old) ==
  IF ~TogglesFound(pos) THEN old
  ELSE IF Len(items) > INITIAL_SHOW_COUNT THEN ToggleDisplay(FALSE)
  ELSE SuppressedDisplay

\* whether setupToggleButtons registers its two click listeners
SetupWires(pos, items) == TogglesFound(pos) /\ Len(items) > INITIAL_SHOW_COUNT

\* the items after setupToggleButtons
SetupItems(pos, items) ==
  IF SetupWires(pos, items) THEN toggleActivities(items, FALSE) ELSE items

\* ------------------------------------------------------- steps of a call
NoResult == [kind |-> "none", value |-> JsonNull]
Settled(kind) == [kind |-> kind, value |-> JsonNull]
Decoded(v) == [kind |-> "json", value |-> v]

\* response.json() on a body of the source at url
Json(url, body) ==
  IF body.kind = "badjson" THEN Settled("badjson")
  ELSE IF body.kind = "null" THEN Decoded(JsonNull)
  ELSE IF body.kind = "object" THEN Decoded(JsonObject)
  ELSE Decoded(Payload(url, body.n))

\* how an attempt settled, as one word
WayOf(res) ==
  IF res.kind # "json" THEN res.kind
  ELSE IF res.value.type = "null" THEN "falsy"
  ELSE IF res.value.type = "object" THEN "object"
  ELSE IF res.value.elems = <<>> THEN "empty"
  ELSE "records"

\* The step taken: the handler, its call, how its input settled, the number
\* of records decoded, how the call's primary attempt had settled, whether the
\* call returned in this step (and then whether a call in flight beside it had
\* returned before), and the fetch calls it has made.
TookStep(op, l, res, returned) ==
  event' = [op |-> op, load |-> l, res |-> WayOf(res), n |-> Len(res.value.elems),
            way |-> primary[l], returned |-> returned,
            raced |-> returned /\ raced[l],
            requests |-> IF returned THEN requests[l] ELSE requests'[l]]

\* variant: any array counts as empty
AnyArrayIsEmpty(v) == v.type = "null" \/ v.type = "array"

\* !activities || activities.length === 0
NoActivities(v) == v.type = "null" \/ (v.type = "array" /\ Len(v.elems) = 0)

Dom == [children |-> children, pos |-> togglePos]

InFlight(l) == pc[l] # "idle"

\* variant: a request is repeated once
FetchedAgain(l, url) == [requests EXCEPT ![l][url] = @ + 2]

Fetched(l, url) == [requests EXCEPT ![l][url] = @ + 1]

\* Item elements removed from the container live on only in the closures of
\* the listeners registered for them.
Detached(w) == IF w = {} THEN {} ELSE {"detached"}

NoRequests == [A |-> 0, B |-> 0]

\* the calls in flight without call l, numbered from the oldest again
Shift(f, l, init) ==
  [k \in Loads |-> IF k < l THEN f[k]
                   ELSE IF k + 1 \in Loads THEN f[k + 1]
                   ELSE init]

\* the function returns: its locals are gone
Return(l) ==
  /\ pc' = Shift(pc, l, "idle")
  /\ lmRef' = Shift(lmRef, l, FALSE)
  /\ colRef' = Shift(colRef, l, FALSE)
  /\ activities' = Shift(activities, l, JsonNull)
  /\ requests' = Shift(requests, l, NoRequests)
  /\ primary' = Shift(primary, l, "none")
  /\ raced' = Shift([k \in Loads |-> InFlight(k)], l, FALSE)

\* variant: the missing container is not reported
AbortSilently(l) ==
  /\ console' = {}
  /\ Return(l)
  /\ UNCHANGED <<containerExists, children, togglePos, display, itemElements, wired>>

\* lines 160-163: no container
Abort(l) ==
  /\ console' = {<<"error", ERROR_CODES.CONTAINER_NOT_FOUND>>}
  /\ Return(l)
  /\ UNCHANGED <<containerExists, children, togglePos, display, itemElements, wired>>

\* lines 165-176: save the toggles, show the placeholder, request the snapshot
Begin(l) ==
  LET dom == showLoading(Dom)
  IN /\ lmRef' = [lmRef EXCEPT ![l] = getElementById(togglePos, "loadMore")]
     /\ colRef' = [colRef EXCEPT ![l] = getElementById(togglePos, "collapse")]
     /\ children' = dom.children
     /\ togglePos' = dom.pos
     /\ itemElements' = <<>>
     /\ wired' = Detached(wired)
     /\ requests' = Fetched(l, STATIC_JSON_URL)
     /\ pc' = [pc EXCEPT ![l] = "fetchA"]
     /\ console' = {}
     /\ UNCHANGED <<containerExists, display, activities, primary, raced>>

\* loadActivities() is called: DOMContentLoaded, or reload()
Start(l) ==
  /\ pc[l] = "idle"
  /\ \A k \in Loads : k < l => InFlight(k)
  /\ scrollTarget' = "none"
  /\ IF containerExists THEN Begin(l) ELSE Abort(l)
  /\ TookStep("start", l, NoResult, ~containerExists)

\* lines 186-188: the primary gave nothing, request the fallback
TryFallback(l, v, way, con) ==
  /\ activities' = [activities EXCEPT ![l] = v]
  /\ primary' = [primary EXCEPT ![l] = way]
  /\ requests' = Fetched(l, FALLBACK_API_URL)
  /\ pc' = [pc EXCEPT ![l] = "fetchB"]
  /\ console' = con
  /\ UNCHANGED <<containerExists, children, togglePos, display, itemElements,
                 wired, lmRef, colRef, raced>>

\* showError, the two appendChild calls, return (lines 194-197 and 203-206)
FinishError(l, errorCode, con) ==
  LET dom == AppendToggles(showErrorDom(Dom, errorCode), l)
  IN /\ children' = dom.children
     /\ togglePos' = dom.pos
     /\ itemElements' = <<>>
     /\ wired' = Detached(wired)
     /\ console' = con \cup {<<"error", errorCode>>}
     /\ Return(l)
     /\ UNCHANGED <<containerExists, display>>

\* lines 209-217 for a value that has no sort method: innerHTML is cleared,
\* activities.sort throws and the promise rejects
RenderThrows(l, con) ==
  LET dom == ClearContainer(Dom)
  IN /\ children' = dom.children
     /\ togglePos' = dom.pos
     /\ itemElements' = <<>>
     /\ wired' = Detached(wired)
     /\ console' = con
     /\ Return(l)
     /\ UNCHANGED <<containerExists, display>>

\* lines 209-233 for an array
RenderItems(l, v, con) ==
  \E sorted \in SortOutcomes(v.elems) :
    LET made == [i \in 1..Len(sorted) |->
                   createActivityItem(sorted[i], i - 1 >= INITIAL_SHOW_COUNT)]
        cleared == ClearContainer(Dom)
        dom == AppendToggles(
                 [children |-> cleared.children \o [i \in 1..Len(sorted) |-> ItemNode(i)],
                  pos |-> cleared.pos], l)
    IN /\ children' = dom.children
       /\ togglePos' = dom.pos
       /\ display' = SetupDisplay(dom.pos, made, display)
       /\ itemElements' = SetupItems(dom.pos, made)
       /\ wired' = Detached(wired) \cup
                     (IF SetupWires(dom.pos, made) THEN {"rendered"} ELSE {})
       /\ console' = con
       /\ Return(l)
       /\ UNCHANGED containerExists

Render(l, v, con) ==
  IF v.type = "array" THEN RenderItems(l, v, con) ELSE RenderThrows(l, con)

Waiting(l, next) ==
  /\ pc' = [pc EXCEPT ![l] = next]
  /\ console' = {}
  /\ UNCHANGED <<containerExists, children, togglePos, display, itemElements,
                 wired, lmRef, colRef, activities, requests, primary, raced>>

\* fetch(STATIC_JSON_URL) settles
FetchASettle(l, kind) ==
  /\ pc[l] = "fetchA"
  /\ scrollTarget' = "none"
  /\ IF kind = "ok" THEN Waiting(l, "jsonA")
     ELSE IF kind = "reject"
     THEN TryFallback(l, JsonNull, kind, {<<"warn", STATIC_JSON_URL>>})
     ELSE TryFallback(l, JsonNull, kind, {})
  /\ TookStep("fetchA", l, Settled(kind), FALSE)

\* response.json() of the snapshot settles
JsonASettle(l, body) ==
  LET res == Json(STATIC_JSON_URL, body)
  IN /\ pc[l] = "jsonA"
     /\ scrollTarget' = "none"
     /\ IF res.kind = "badjson"
        THEN TryFallback(l, JsonNull, "badjson", {<<"warn", STATIC_JSON_URL>>})
        ELSE IF NoActivities(res.value)
        THEN TryFallback(l, res.value, WayOf(res), {<<"log", STATIC_JSON_URL>>})
        ELSE Render(l, res.value, {<<"log", STATIC_JSON_URL>>})
     /\ TookStep("jsonA", l, res, res.kind = "json" /\ ~NoActivities(res.value))

\* variant: the decoded fallback body is not assigned to activities
AfterFallbackStale(l, v, con) ==
  IF NoActivities(activities[l])
  THEN FinishError(l, ERROR_CODES.EMPTY_DATA, con)
  ELSE Render(l, activities[l], con)

\* lines 201-207 and on, once the fallback attempt is over
AfterFallback(l, v, con) ==
  IF NoActivities(v)
  THEN FinishError(l, ERROR_CODES.EMPTY_DATA, con)
  ELSE Render(l, v, con)

\* fetch(FALLBACK_API_URL) settles
FetchBSettle(l, kind) ==
  /\ pc[l] = "fetchB"
  /\ scrollTarget' = "none"
  /\ IF kind = "ok" THEN Waiting(l, "jsonB")
     ELSE IF kind = "reject"
     THEN FinishError(l, ERROR_CODES.NETWORK_ERROR, {})
     ELSE AfterFallback(l, activities[l], {})
  /\ TookStep("fetchB", l, Settled(kind), kind # "ok")

\* response.json() of the fallback settles
JsonBSettle(l, body) ==
  LET res == Json(FALLBACK_API_URL, body)
  IN /\ pc[l] = "jsonB"
     /\ scrollTarget' = "none"
     /\ IF res.kind = "badjson"
        THEN FinishError(l, ERROR_CODES.NETWORK_ERROR, {})
        ELSE AfterFallback(l, res.value, {<<"log", FALLBACK_API_URL>>})
     /\ TookStep("jsonB", l, res, TRUE)

\* ------------------------------------------------------------------ clicks
\* a user can only click an element that is attached and displayed
Visible(t) == getElementById(togglePos, t) /\ display[t] # "none"

\* variant: only the listener registered first runs
RunOldestListener(showAll) ==
  /\ itemElements' = IF wired = {"rendered"}
                     THEN toggleActivities(itemElements, showAll)
                     ELSE itemElements
  /\ display' = IF wired # {} THEN ToggleDisplay(showAll) ELSE display

\* every registered listener runs toggleActivities(showAll) on its own items
RunListeners(showAll) ==
  /\ itemElements' = IF "rendered" \in wired
                     THEN toggleActivities(itemElements, showAll)
                     ELSE itemElements
  /\ display' = IF wired # {} THEN ToggleDisplay(showAll) ELSE display

ClickLoadMore ==
  /\ Visible("loadMore")
  /\ RunListeners(TRUE)
  /\ console' = {}
  /\ scrollTarget' = "none"
  /\ UNCHANGED <<containerExists, children, togglePos, wired, pc, lmRef, colRef,
                 activities, requests, primary, raced>>
  /\ TookStep("clickLoadMore", 1, NoResult, FALSE)

ClickCollapse ==
  /\ Visible("collapse")
  /\ RunListeners(FALSE)
  /\ console' = {}
  /\ scrollTarget' = IF wired # {} THEN "loadMore" ELSE "none"
  /\ UNCHANGED <<containerExists, children, togglePos, wired, pc, lmRef, colRef,
                 activities, requests, primary, raced>>
  /\ TookStep("clickCollapse", 1, NoResult, FALSE)

\* ------------------------------------------------------------ the machine
\* The page as served: the container and each toggle may be missing.  The
\* toggles are children of the container (loadActivities saves them before it
\* overwrites innerHTML); on a page without the container they sit elsewhere.
Layouts ==
  [Toggles -> {"absent", IF containerExists THEN "inside" ELSE "outside"}]

\* the page's style sheet shows both toggles or hides both
InitialDisplays(p) ==
  {d \in [Toggles -> {"none", "block"}] :
     /\ \A t \in Toggles : p[t] = "absent" => d[t] = "none"
     /\ \A t, u \in Toggles : "absent" \notin {p[t], p[u]} => d[t] = d[u]}

InitialChildren(p) ==
  (IF p["loadMore"] = "inside" THEN <<ToggleNode("loadMore")>> ELSE <<>>)
  \o (IF p["collapse"] = "inside" THEN <<ToggleNode("collapse")>> ELSE <<>>)

Init ==
  /\ containerExists \in BOOLEAN
  /\ togglePos \in Layouts
  /\ children = InitialChildren(togglePos)
  /\ display \in InitialDisplays(togglePos)
  /\ itemElements = <<>>
  /\ wired = {}
  /\ scrollTarget = "none"
  /\ console = {}
  /\ pc = [l \in Loads |-> "idle"]
  /\ lmRef = [l \in Loads |-> FALSE]
  /\ colRef = [l \in Loads |-> FALSE]
  /\ activities = [l \in Loads |-> JsonNull]
  /\ requests = [l \in Loads |-> NoRequests]
  /\ primary = [l \in Loads |-> "none"]
  /\ raced = [l \in Loads |-> FALSE]
  /\ event = [op |-> "init", load |-> 1, res |-> "none", n |-> 0, way |-> "none",
              returned |-> FALSE, raced |-> FALSE, requests |-> NoRequests]

FetchResults == {"reject", "notok", "ok"}

Next ==
  \/ \E l \in Loads : Start(l)
  \/ \E l \in Loads, kind \in FetchResults : FetchASettle(l, kind)
  \/ \E l \in Loads, body \in Bodies : JsonASettle(l, body)
  \/ \E l \in Loads, kind \in FetchResults : FetchBSettle(l, kind)
  \/ \E l \in Loads, body \in Bodies : JsonBSettle(l, body)
  \/ ClickLoadMore
  \/ ClickCollapse

Spec == Init /\ [][Next]_vars

\* The page view in which loadActivities is never called while a call is in
\* flight: calls do not overlap.
SeqNext ==
  \/ Start(1)
  \/ \E kind \in FetchResults : FetchASettle(1, kind)
  \/ \E body \in Bodies : JsonASettle(1, body)
  \/ \E kind \in FetchResults : FetchBSettle(1, kind)
  \/ \E body \in Bodies : JsonBSettle(1, body)
  \/ ClickLoadMore
  \/ ClickCollapse

SpecSeq == Init /\ [][SeqNext]_vars

\* ------------------------------------------------------------- properties
\* what the container shows, the toggles aside
Content == SelectSeq(children, LAMBDA x : x.kind \notin Toggles)

ItemCount == Len(SelectSeq(children, LAMBDA x : x.kind = "item"))

\* the error codes on display
ShownCodes == {children[i].code : i \in {j \in DOMAIN children : children[j].kind = "error"}}

ItemNodes(n) == [i \in 1..n |-> ItemNode(i)]

\* what an item element shows of its record
Shown(item) == [date |-> item.date, title |-> item.title, content |-> item.content]

\* the record an item element was built from
Source(item) ==
  CHOOSE a \in {Activity(url, i) : url \in {STATIC_JSON_URL, FALLBACK_API_URL}, i \in 1..MaxLen} :
    escapeHtml(a.title) = item.title

\* a call returned in the last step, having rendered items
Rendered == event.returned /\ event.res = "records"

\* no call of loadActivities is in flight
Quiet == \A l \in Loads : ~InFlight(l)

\* both toggle elements are part of the page's markup
BothPresent == \A t \in Toggles : togglePos[t] # "absent"

PrimaryUnusable == {"reject", "notok", "badjson", "empty"}

\* C1: a call whose primary request succeeds and decodes to a non-empty array
\* returns at once, having requested the snapshot once and the fallback never;
\* the fallback is requested only by calls whose primary attempt gave nothing.
C1_FastPathSkipsFallback ==
  /\ (event.op = "jsonA" /\ event.res = "records") =>
       (event.returned /\ event.requests = [A |-> 1, B |-> 0])
  /\ \A l \in Loads : requests[l].B > 0 => primary[l] \in PrimaryUnusable \cup {"falsy"}

C1_Witness ==
  /\ event.op = "jsonA" /\ event.res = "records"
  /\ event.requests.B = 0
  /\ ItemCount = event.n /\ event.n > INITIAL_SHOW_COUNT

\* C2: whichever way the primary was unusable (transport failure, non-2xx
\* status, undecodable body, empty array), when the fallback decodes to N > 0
\* records the call ends with exactly those N records as the container's item
\* elements and no error message on display.
C2_FallbackRecordsRendered ==
  (event.op = "jsonB" /\ event.res = "records" /\ event.way \in PrimaryUnusable) =>
    /\ event.returned
    /\ Content = ItemNodes(event.n)
    /\ Len(itemElements) = event.n
    /\ {Shown(itemElements[i]) : i \in 1..Len(itemElements)}
         = {Shown(createActivityItem(Activity(FALLBACK_API_URL, i), FALSE)) : i \in 1..event.n}
    /\ ShownCodes = {}

C2_Witness ==
  /\ event.op = "jsonB" /\ event.res = "records" /\ event.way = "badjson"
  /\ ItemCount = event.n /\ event.n > 0
  /\ ShownCodes = {}

\* C3: when both attempts complete without a transport failure and neither
\* yields records (non-2xx, empty array or undecodable body, in any
\* combination), the call ends showing ERR-AL-003 and no item element.
C3_BothUnusableEmptyData ==
  (/\ event.returned
   /\ event.op \in {"fetchB", "jsonB"}
   /\ event.way \in {"notok", "badjson", "empty"}
   /\ event.res \in {"notok", "badjson", "empty"}) =>
    (ShownCodes = {"ERR-AL-003"} /\ ItemCount = 0)

\* C4: a fallback request that fails in transport ends the call showing
\* ERR-AL-002 and no item element; a primary attempt that fails writes nothing
\* to the page and reports no error, it only requests the fallback.
C4_OnlyFallbackFailureShown ==
  [][/\ (event'.op = "fetchB" /\ event'.res = "reject") =>
          (event'.returned /\ ShownCodes' = {"ERR-AL-002"} /\ ItemCount' = 0)
     /\ (event' # event /\ event'.op \in {"fetchA", "jsonA"}
           /\ event'.res \in PrimaryUnusable) =>
          /\ UNCHANGED <<children, togglePos, display, itemElements>>
          /\ \A line \in console' : line[1] # "error"
          /\ ~event'.returned
          /\ pc'[event'.load] = "fetchB"
          /\ event'.requests = [A |-> 1, B |-> 1]]_vars

C4_Witness ==
  /\ event.op = "fetchB" /\ event.res = "reject" /\ event.way = "reject"
  /\ ShownCodes = {"ERR-AL-002"}
  /\ ItemCount = 0

IsValid(date) == date.kind = "valid"

\* x may stand before y: y has no valid date, or both have and x is not older
InOrder(x, y) == ~IsValid(y) \/ (IsValid(x) /\ NewDate(x).t >= NewDate(y).t)

\* C5: the rendered items are in non-increasing order of date, and every
\* record whose date is missing or unparseable comes after all records with
\* valid dates.
C5_SortedByDate ==
  Rendered =>
    \A i, j \in 1..Len(itemElements) :
      i < j => InOrder(Source(itemElements[i]).date, Source(itemElements[j]).date)

TogglesLast ==
  LET n == Len(children)
  IN /\ n >= 2
     /\ {children[n - 1], children[n]} = {ToggleNode(t) : t \in Toggles}
     /\ \A i \in 1..(n - 2) : children[i].kind = "item"

\* C6: whenever a call has finished rendering its items and none is left in
\* flight, whatever reloads (overlapping ones included) and clicks came before,
\* the two toggle elements of the page are the last children of the container,
\* after all items.
C6_TogglesLast == (Rendered /\ Quiet /\ BothPresent) => TogglesLast

Collapsed ==
  /\ \A i \in 1..Len(itemElements) : itemElements[i].hidden <=> (i - 1 >= INITIAL_SHOW_COUNT)
  /\ Visible("loadMore")
  /\ ~Visible("collapse")

Expanded ==
  /\ \A i \in 1..Len(itemElements) : ~itemElements[i].hidden
  /\ Visible("collapse")
  /\ ~Visible("loadMore")

\* C7: with more than 5 items rendered and no call left in flight the view
\* starts Collapsed, a show-more click makes it Expanded, a collapse click
\* makes it Collapsed again, and clicks reach no other configuration.
C7_DisclosureStates ==
  (BothPresent /\ Quiet /\ ItemCount > INITIAL_SHOW_COUNT) =>
    /\ Rendered => Collapsed
    /\ event.op = "clickLoadMore" => Expanded
    /\ event.op = "clickCollapse" => Collapsed

C9_LastFinisherWins ==
  [][/\ (event' # event /\ event'.op = "start") =>
          \A k \in Loads : InFlight(k) => (pc'[k] = pc[k] /\ requests'[k] = requests[k])
     /\ event'.raced =>
          IF event'.res = "records"
          THEN Content' = ItemNodes(event'.n) /\ Len(itemElements') = event'.n
          ELSE IF event'.res = "object"
          THEN Content' = <<>> /\ itemElements' = <<>>
          ELSE /\ \E code \in {"ERR-AL-002", "ERR-AL-003"} : Content' = <<ErrorNode(code)>>
               /\ itemElements' = <<>>]_vars

C9_Witness ==
  /\ event.raced
  /\ event.res = "empty"
  /\ Content = <<ErrorNode("ERR-AL-003")>>
  /\ \A l \in Loads : ~InFlight(l)

\* C10: a call made while the page has no container logs ERR-AL-004 and
\* returns: no request, no placeholder, no message, the toggles and the rest
\* of the page as they were.
C10_NoContainerNoEffect ==
  [][(~containerExists /\ event'.op = "start") =>
       /\ console' = {<<"error", "ERR-AL-004">>}
       /\ event'.returned
       /\ event'.requests = NoRequests
       /\ UNCHANGED <<containerExists, children, togglePos, display, itemElements,
                      wired, pc, requests>>]_vars

C10_Witness ==
  /\ ~containerExists
  /\ event.op = "start"
  /\ console = {<<"error", "ERR-AL-004">>}
  /\ \A t \in Toggles : togglePos[t] = "outside" /\ display[t] = "block"
  /\ children = <<>>


\* the source the call that rendered last took its records from
ResolvedUrl == IF event.op = "jsonA" THEN STATIC_JSON_URL ELSE FALLBACK_API_URL

\* how many item elements show record a
Showing(a) ==
  Cardinality({i \in DOMAIN itemElements :
                 Shown(itemElements[i]) = Shown(createActivityItem(a, FALSE))})

Occurrences(recs, a) == Cardinality({i \in DOMAIN recs : recs[i] = a})

\* C11: a call that renders leaves one item element per record of the
\* sequence it resolved, repeated records included as often as they occur, and
\* the item of a record without a date has an empty date label.
C11_OneItemPerRecord ==
  Rendered =>
    LET recs == Payload(ResolvedUrl, event.n).elems
    IN /\ Content = ItemNodes(event.n)
       /\ Len(itemElements) = event.n
       /\ \A k \in DOMAIN recs : Showing(recs[k]) = Occurrences(recs, recs[k])
       /\ \A i \in DOMAIN itemElements :
            Source(itemElements[i]).date.kind = "undefined" => itemElements[i].date = <<>>

C11_Witness ==
  /\ Rendered
  /\ event.op = "jsonB"
  /\ \E i \in DOMAIN itemElements :
       Source(itemElements[i]).date.kind = "undefined" /\ itemElements[i].date = <<>>
  /\ \E i, j \in DOMAIN itemElements : i # j /\ Shown(itemElements[i]) = Shown(itemElements[j])

\* C12: the container never holds anything but the placeholder, items, the
\* toggles and the generic message with a code, and the code is ERR-AL-002 or
\* ERR-AL-003; ERR-AL-004 goes to the console and leaves the page as it was.
C12_OnlyCodesShown ==
  /\ \A i \in DOMAIN children :
       /\ children[i].kind \in {"loading", "item", "error"} \cup Toggles
       /\ children[i].kind = "error" => children[i].code \in {"ERR-AL-002", "ERR-AL-003"}
       /\ children[i].kind # "error" => children[i].code = ""
  /\ <<"error", "ERR-AL-004">> \in console => ShownCodes = {}

C12_Witness ==
  /\ Content = <<ErrorNode("ERR-AL-003")>>
  /\ console = {<<"log", FALLBACK_API_URL>>, <<"error", "ERR-AL-003">>}

\* C13: a call requests each source at most once, the snapshot first; the
\* fallback is requested only once the primary attempt (request and decoding)
\* has settled.
C13_SequentialSingleShot ==
  /\ event.requests.A <= 1 /\ event.requests.B <= 1
  /\ \A l \in Loads :
       /\ requests[l].A <= 1 /\ requests[l].B <= 1
       /\ InFlight(l) => requests[l].A = 1
       /\ pc[l] \in {"fetchA", "jsonA"} => (requests[l].B = 0 /\ primary[l] = "none")
       /\ pc[l] \in {"fetchB", "jsonB"} => (requests[l].B = 1 /\ primary[l] # "none")

C13_Witness ==
  \E l \in Loads :
    pc[l] = "jsonB" /\ requests[l] = [A |-> 1, B |-> 1] /\ primary[l] = "empty"

\* what an HTML parser reads back from text content: the three entities decoded
RECURSIVE Unescape(_)
Unescape(s) ==
  IF s = <<>> THEN <<>>
  ELSE IF Len(s) >= 5 /\ SubSeq(s, 1, 5) = <<"&", "a", "m", "p", ";">>
       THEN <<"&">> \o Unescape(SubSeq(s, 6, Len(s)))
  ELSE IF Len(s) >= 4 /\ SubSeq(s, 1, 4) = <<"&", "l", "t", ";">>
       THEN <<"<">> \o Unescape(SubSeq(s, 5, Len(s)))
  ELSE IF Len(s) >= 4 /\ SubSeq(s, 1, 4) = <<"&", "g", "t", ";">>
       THEN <<">">> \o Unescape(SubSeq(s, 5, Len(s)))
  ELSE <<Head(s)>> \o Unescape(Tail(s))

\* the parser starts a tag only at "<"
OpensTag(s) == \E i \in DOMAIN s : s[i] = "<"

\* C14: the date label, title and content of every item element open no tag
\* and read back as the record's own text.
C14_FieldsEscaped ==
  \A i \in DOMAIN itemElements :
    LET item == itemElements[i]
        a == Source(item)
    IN /\ ~OpensTag(item.date) /\ ~OpensTag(item.title) /\ ~OpensTag(item.content)
       /\ Unescape(item.date) = formatDate(a.date)
       /\ Unescape(item.title) = a.title
       /\ Unescape(item.content) = a.content

C14_Witness ==
  /\ \E i \in DOMAIN itemElements : OpensTag(Source(itemElements[i]).content)
  /\ \E i \in DOMAIN itemElements :
       /\ Source(itemElements[i]).date.kind = "invalid"
       /\ itemElements[i].date = <<"&", "l", "t", ";", "x", "&", "g", "t", ";">>


\* a toggle element is not in the document
AToggleMissing == \E t \in Toggles : togglePos[t] \in {"absent", "detached"}

\* C15: a call that finishes rendering while a toggle element is not in the
\* page still leaves all its items in the container, those from index 5 on
\* hidden, registers no click listener, leaves the display of the toggles as it
\* was and reports no error.
C15_MissingToggleDisablesDisclosure ==
  [][(Rendered' /\ AToggleMissing') =>
       /\ Content' = ItemNodes(event'.n)
       /\ Len(itemElements') = event'.n
       /\ \A i \in DOMAIN itemElements' :
            itemElements'[i].hidden <=> (i - 1 >= INITIAL_SHOW_COUNT)
       /\ "rendered" \notin wired'
       /\ display' = display
       /\ \A line \in console' : line[1] # "error"]_vars

C15_Witness ==
  /\ Rendered
  /\ togglePos = [loadMore |-> "inside", collapse |-> "absent"]
  /\ display["loadMore"] = "block"
  /\ event.n > INITIAL_SHOW_COUNT
  /\ itemElements[event.n].hidden
  /\ wired = {}


Clicks == {"clickLoadMore", "clickCollapse"}

\* C16 as stated: once a call has set the disclosure up (listeners are
\* registered), the display of the two toggles changes only in a step that is
\* a click on one of them; no call of loadActivities changes it.
C16_OnlyClicksChangeDisclosure ==
  [][(wired # {} /\ display' # display) => event'.op \in Clicks]_vars

\* C16 amended: the display of the two toggles changes only in a click on one
\* of them or in the step in which a call finishes rendering with both toggles
\* in the document (which sets the disclosure up anew); starting a call, a
\* failed attempt and a call that ends in an error leave it as it was.
C16_ClicksOrRenderChangeDisclosure ==
  [][display' # display => (event'.op \in Clicks \/ (Rendered' /\ ~AToggleMissing'))]_vars

C16_Witness ==
  /\ Rendered
  /\ "detached" \in wired
  /\ event.n > INITIAL_SHOW_COUNT
  /\ Collapsed

\* C17: a call that found the container and returns leaves the container
\* without the loading placeholder and with either item elements or an error
\* message with its code, whatever the sources decoded to.
C17_EndsWithItemsOrError ==
  (event.returned /\ event.op # "start") =>
    /\ \A i \in DOMAIN children : children[i] # LoadingNode
    /\ ItemCount > 0 \/ ShownCodes # {}

\* C18: with no call in flight, after a call has rendered more than 5 items
\* and registered its listeners, a toggle is visible only while the container
\* holds more than 5 item elements; none is visible next to an error message.
C18_TogglesOnlyWithManyItems ==
  (Quiet /\ wired # {} /\ \E t \in Toggles : Visible(t)) => ItemCount > INITIAL_SHOW_COUNT


\* C19: while calls do not overlap and the container shows more than 5 items
\* of a page with both toggles, a show-more click leaves every rendered item
\* visible, collapse visible and show-more hidden, and a collapse click leaves
\* exactly the rendered items from index 5 on hidden, show-more visible and
\* collapse hidden, whatever listeners earlier calls left registered.
C19_StaleListenersHarmless ==
  (BothPresent /\ ItemCount > INITIAL_SHOW_COUNT /\ event.op \in Clicks) =>
    /\ Len(itemElements) = ItemCount
    /\ event.op = "clickLoadMore" => Expanded
    /\ event.op = "clickCollapse" => Collapsed
    /\ wired # {} => "rendered" \in wired

C19_Witness ==
  /\ event.op = "clickCollapse"
  /\ wired = {"rendered", "detached"}
  /\ ItemCount > INITIAL_SHOW_COUNT
  /\ Collapsed
  /\ scrollTarget = "loadMore"


=============================================================================
